---- MODULE Spec2Model ----
(***************************************************************************)
(* Model of shell/browser/api/electron_api_tray.cc: the scripted Tray      *)
(* object, its factory createTray, its methods and the TrayIconObserver    *)
(* callbacks.  The native TrayIcon is an external collaborator; the model  *)
(* records every call made on it (calls) and every scripted event emitted  *)
(* (emitted).  The model follows one Tray object.                          *)
(***************************************************************************)
EXTENDS Naturals, Sequences, FiniteSets

VARIABLES
  platform,    \* build target: decides the #if defined(OS_WIN / OS_MACOSX) branches
  is_ready,    \* Browser::Get()->is_ready()
  created,     \* the Tray object has been constructed by Tray::New
  tray_icon_,  \* Tray::tray_icon_ : NULL or the owned native TrayIcon
  menu_,       \* Tray::menu_ : NULL or the held context menu
  op,          \* the operation that ran last: [name, arg]
  thrown,      \* the error the last operation threw, or NoError
  returned,    \* the value the last operation returned
  calls,       \* the calls the last operation made on the native TrayIcon
  delivered,   \* history: observer callbacks delivered to the Tray, in order
  emitted,     \* history: scripted events emitted by the Tray, in order
  destroyCalled \* history: destroy has been called on the Tray

vars == <<platform, is_ready, created, tray_icon_, menu_, op, thrown, returned,
          calls, delivered, emitted, destroyCalled>>

\* Length bound of the callback history kept by the model.
MaxEvents == 2

NULL == "NULL"
ICON == "TrayIcon"
NoError == "none"
Absent == "absent"
Undefined == "undefined"

Platforms == {"OS_WIN", "OS_MACOSX", "OS_LINUX"}
Images == {"img1"}
Strings == {"a"}
Menus == {"menu1"}
Guids == {"guid1"}
Rects == {"Rect(1)"}
Points == {"Point(1)"}
BoolStr(b) == IF b THEN "true" ELSE "false"

ErrDestroyed == "Tray is destroyed"
ErrNotReady == "Cannot create Tray before app is ready"
ErrGuid == "Invalid GUID format"
ErrBalloon == "'title' and 'content' must be defined"
ErrMenu == "TypeError: Must pass Menu or null"

Call(fn, arg) == [fn |-> fn, arg |-> arg]
Op(name, arg) == [name |-> name, arg |-> arg]

Init ==
  /\ platform \in Platforms
  /\ is_ready = FALSE
  /\ created = FALSE
  /\ tray_icon_ = NULL
  /\ menu_ = NULL
  /\ op = Op("init", Absent)
  /\ thrown = NoError
  /\ returned = Undefined
  /\ calls = <<>>
  /\ delivered = <<>>
  /\ emitted = <<>>
  /\ destroyCalled = FALSE

\* The application becomes ready (Browser::is_ready() turns true, once).
BrowserReady ==
  /\ ~is_ready
  /\ is_ready' = TRUE
  /\ op' = Op("ready", Absent)
  /\ thrown' = NoError
  /\ returned' = Undefined
  /\ calls' = <<>>
  /\ UNCHANGED <<platform, created, tray_icon_, menu_, delivered, emitted,
                 destroyCalled>>

\* Tray::CheckDestroyed: true when the native icon is still owned; otherwise
\* it throws ErrDestroyed and returns false.
CheckDestroyedAlwaysTrue(icon) == TRUE
CheckDestroyed(icon) == icon # NULL

\* The image handed to the native icon: an HICON of small-icon size on
\* Windows, the gfx::Image elsewhere.
NativeImageArg(image) ==
  IF platform = "OS_WIN" THEN <<"HICON", image, "SM_CXSMICON">>
  ELSE <<"image", image>>

\* The checks of Tray::New, in the order the code makes them.
NewResultGuidFirst(image, guid, argc) ==
  IF platform = "OS_WIN" /\ guid = Absent /\ argc > 1
    THEN [thrown |-> ErrGuid, ok |-> FALSE]
  ELSE IF ~is_ready
    THEN [thrown |-> ErrNotReady, ok |-> FALSE]
  ELSE [thrown |-> NoError, ok |-> TRUE]

NewResult(image, guid, argc) ==
  IF ~is_ready
    THEN [thrown |-> ErrNotReady, ok |-> FALSE]
  ELSE IF platform = "OS_WIN" /\ guid = Absent /\ argc > 1
    THEN [thrown |-> ErrGuid, ok |-> FALSE]
  ELSE [thrown |-> NoError, ok |-> TRUE]

\* Tray::New, with the constructor Tray::Tray on its success path.  Every
\* Tray is an object of its own; the model follows the first one, so the
\* success path is taken once, while failing calls may happen at any time.
New ==
  \E image \in Images, ga \in {<<Absent, 1>>, <<Absent, 2>>} \cup {<<g, 2>> : g \in Guids} :
    LET guid == ga[1]
        argc == ga[2]
        r == NewResult(image, guid, argc)
    IN /\ r.ok => ~created
       /\ op' = Op("createTray", [image |-> image, guid |-> guid, argc |-> argc])
       /\ thrown' = r.thrown
       /\ IF r.ok
            THEN /\ created' = TRUE
                 /\ tray_icon_' = ICON
                 /\ calls' = <<Call("Create", guid),
                               Call("SetImage", NativeImageArg(image)),
                               Call("AddObserver", "this")>>
                 /\ returned' = "Handle<Tray>"
            ELSE /\ UNCHANGED <<created, tray_icon_>>
                 /\ calls' = <<>>
                 /\ returned' = "Handle<Tray>()"
       /\ UNCHANGED <<platform, is_ready, menu_, delivered, emitted, destroyCalled>>

\* A scripted method of the Tray ran to completion: its outcome is recorded
\* and only menu_ may have changed.
Method(name, arg, thr, ret, cs, newMenu) ==
  /\ created
  /\ op' = Op(name, arg)
  /\ thrown' = thr
  /\ returned' = ret
  /\ calls' = cs
  /\ menu_' = newMenu
  /\ UNCHANGED <<platform, is_ready, created, tray_icon_, delivered, emitted,
                 destroyCalled>>

\* The early return of a method whose CheckDestroyed() failed: the error is
\* thrown, the default value ret is returned, nothing else happens.
Destroyed(name, arg, ret) == Method(name, arg, ErrDestroyed, ret, <<>>, menu_)

\* Tray::Destroy
DestroyKeepsIcon ==
  /\ created
  /\ menu_' = NULL
  /\ tray_icon_' = tray_icon_
  /\ destroyCalled' = TRUE
  /\ op' = Op("destroy", Absent)
  /\ thrown' = NoError
  /\ returned' = Undefined
  /\ calls' = <<>>
  /\ UNCHANGED <<platform, is_ready, created, delivered, emitted>>

Destroy ==
  /\ created
  /\ menu_' = NULL
  /\ tray_icon_' = NULL
  /\ destroyCalled' = TRUE
  /\ op' = Op("destroy", Absent)
  /\ thrown' = NoError
  /\ returned' = Undefined
  /\ calls' = <<>>
  /\ UNCHANGED <<platform, is_ready, created, delivered, emitted>>

\* Tray::IsDestroyed
IsDestroyed ==
  Method("isDestroyed", Absent, NoError, BoolStr(tray_icon_ = NULL), <<>>, menu_)

\* Tray::SetImage
SetImage ==
  \E image \in Images :
    IF ~CheckDestroyed(tray_icon_)
      THEN Destroyed("setImage", image, Undefined)
      ELSE Method("setImage", image, NoError, Undefined,
                  <<Call("SetImage", NativeImageArg(image))>>, menu_)

\* Tray::SetPressedImage
SetPressedImage ==
  \E image \in Images :
    IF ~CheckDestroyed(tray_icon_)
      THEN Destroyed("setPressedImage", image, Undefined)
      ELSE Method("setPressedImage", image, NoError, Undefined,
                  <<Call("SetPressedImage", NativeImageArg(image))>>, menu_)

\* Tray::SetToolTip
SetToolTipNoCall ==
  \E tool_tip \in Strings :
    IF ~CheckDestroyed(tray_icon_)
      THEN Destroyed("setToolTip", tool_tip, Undefined)
      ELSE Method("setToolTip", tool_tip, NoError, Undefined, <<>>, menu_)

SetToolTip ==
  \E tool_tip \in Strings :
    IF ~CheckDestroyed(tray_icon_)
      THEN Destroyed("setToolTip", tool_tip, Undefined)
      ELSE Method("setToolTip", tool_tip, NoError, Undefined,
                  <<Call("SetToolTip", tool_tip)>>, menu_)

\* Tray::SetTitle: forwarded on macOS only.
SetTitle ==
  \E title \in Strings :
    IF ~CheckDestroyed(tray_icon_)
      THEN Destroyed("setTitle", title, Undefined)
      ELSE Method("setTitle", title, NoError, Undefined,
                  IF platform = "OS_MACOSX" THEN <<Call("SetTitle", title)>>
                  ELSE <<>>,
                  menu_)

\* Tray::GetTitle: the native icon's title on macOS, "" elsewhere.
GetTitle ==
  IF ~CheckDestroyed(tray_icon_)
    THEN Destroyed("getTitle", Absent, "")
  ELSE IF platform = "OS_MACOSX"
    THEN \E title \in Strings :
           Method("getTitle", Absent, NoError, title,
                  <<Call("GetTitle", Absent)>>, menu_)
  ELSE Method("getTitle", Absent, NoError, "", <<>>, menu_)

\* Tray::SetIgnoreDoubleClickEvents: forwarded on macOS only.
SetIgnoreDoubleClickEvents ==
  \E ignore \in BOOLEAN :
    IF ~CheckDestroyed(tray_icon_)
      THEN Destroyed("setIgnoreDoubleClickEvents", BoolStr(ignore), Undefined)
      ELSE Method("setIgnoreDoubleClickEvents", BoolStr(ignore), NoError, Undefined,
                  IF platform = "OS_MACOSX"
                    THEN <<Call("SetIgnoreDoubleClickEvents", BoolStr(ignore))>>
                    ELSE <<>>,
                  menu_)

\* Tray::GetIgnoreDoubleClickEvents: the native icon's flag on macOS, false
\* elsewhere.
GetIgnoreDoubleClickEvents ==
  IF ~CheckDestroyed(tray_icon_)
    THEN Destroyed("getIgnoreDoubleClickEvents", Absent, "false")
  ELSE IF platform = "OS_MACOSX"
    THEN \E ignore \in BOOLEAN :
           Method("getIgnoreDoubleClickEvents", Absent, NoError, BoolStr(ignore),
                  <<Call("GetIgnoreDoubleClickEvents", Absent)>>, menu_)
  ELSE Method("getIgnoreDoubleClickEvents", Absent, NoError, "false", <<>>, menu_)

\* The options dictionaries displayBalloon is called with: each key is
\* present or absent.  iconType, noSound and respectQuietTime are copied
\* into the balloon options like largeIcon and decide nothing here.
BalloonDicts ==
  {o \in [title : {Absent, "t"}, content : {Absent, "c"},
          icon : {Absent} \cup Images, largeIcon : BOOLEAN] :
     o.largeIcon => o.icon # Absent /\ o.title # Absent /\ o.content # Absent}

\* The icon of the balloon: sized by large_icon on Windows.
BalloonIcon(options) ==
  IF options.icon = Absent THEN Absent
  ELSE IF platform = "OS_WIN"
    THEN <<"HICON", options.icon,
           IF options.largeIcon THEN "SM_CXICON" ELSE "SM_CXSMICON">>
  ELSE <<"image", options.icon>>

\* Tray::DisplayBalloon
DisplayBalloon ==
  \E options \in BalloonDicts :
    IF ~CheckDestroyed(tray_icon_)
      THEN Destroyed("displayBalloon", options, Undefined)
    ELSE IF options.title = Absent \/ options.content = Absent
      THEN Method("displayBalloon", options, ErrBalloon, Undefined, <<>>, menu_)
    ELSE Method("displayBalloon", options, NoError, Undefined,
                <<Call("DisplayBalloon",
                       [title |-> options.title, content |-> options.content,
                        icon |-> BalloonIcon(options),
                        large_icon |-> options.largeIcon])>>,
                menu_)

\* Tray::RemoveBalloon
RemoveBalloon ==
  IF ~CheckDestroyed(tray_icon_)
    THEN Destroyed("removeBalloon", Absent, Undefined)
    ELSE Method("removeBalloon", Absent, NoError, Undefined,
                <<Call("RemoveBalloon", Absent)>>, menu_)

\* Tray::Focus
Focus ==
  IF ~CheckDestroyed(tray_icon_)
    THEN Destroyed("focus", Absent, Undefined)
    ELSE Method("focus", Absent, NoError, Undefined,
                <<Call("Focus", Absent)>>, menu_)

\* Tray::PopUpContextMenu: the optional menu argument becomes its model, or
\* nullptr when no menu was passed.
PopUpContextMenu ==
  \E args \in {<<Absent, Absent>>} \cup (Menus \X ({Absent} \cup Points)) :
    LET menu == args[1]
        pos == args[2]
    IN
    IF ~CheckDestroyed(tray_icon_)
      THEN Destroyed("popUpContextMenu", <<menu, pos>>, Undefined)
      ELSE Method("popUpContextMenu", <<menu, pos>>, NoError, Undefined,
                  <<Call("PopUpContextMenu",
                         <<IF pos = Absent THEN "Point()" ELSE pos,
                           IF menu = Absent THEN "nullptr" ELSE menu>>)>>,
                  menu_)

\* Tray::CloseContextMenu
CloseContextMenu ==
  IF ~CheckDestroyed(tray_icon_)
    THEN Destroyed("closeContextMenu", Absent, Undefined)
    ELSE Method("closeContextMenu", Absent, NoError, Undefined,
                <<Call("CloseContextMenu", Absent)>>, menu_)

\* Tray::SetContextMenu: null clears the menu, a Menu is held and set, any
\* other value is a TypeError.
NotAMenu == "not-a-menu"
SetContextMenu ==
  \E arg \in {"null", NotAMenu} \cup Menus :
    IF ~CheckDestroyed(tray_icon_)
      THEN Destroyed("setContextMenu", arg, Undefined)
    ELSE IF arg = "null"
      THEN Method("setContextMenu", arg, NoError, Undefined,
                  <<Call("SetContextMenu", "nullptr")>>, NULL)
    ELSE IF arg \in Menus
      THEN Method("setContextMenu", arg, NoError, Undefined,
                  <<Call("SetContextMenu", arg)>>, arg)
    ELSE Method("setContextMenu", arg, ErrMenu, Undefined, <<>>, menu_)

\* Tray::GetBounds: whatever the native icon reports.
GetBounds ==
  IF ~CheckDestroyed(tray_icon_)
    THEN Destroyed("getBounds", Absent, "Rect()")
    ELSE \E bounds \in Rects :
           Method("getBounds", Absent, NoError, bounds,
                  <<Call("GetBounds", Absent)>>, menu_)

\* gin_helper::EventEmitterMixin::Emit / EmitCustomEvent as the callbacks use
\* it: one scripted event of the given name is emitted.  The payload (bounds,
\* location, modifiers, files, text) is passed through and not modelled.
EmitTwice(log, name) == Append(Append(log, name), name)
Emit(log, name) == Append(log, name)

\* The native icon delivers an observer callback to the Tray registered with
\* it by the constructor; the callback's body yields the event log newLog.
\* A destroyed Tray owns no icon, so nothing is delivered to it.
Callback(cb, newLog) ==
  /\ created
  /\ tray_icon_ # NULL
  /\ Len(delivered) < MaxEvents
  /\ delivered' = Append(delivered, cb)
  /\ emitted' = newLog
  /\ op' = Op(cb, Absent)
  /\ thrown' = NoError
  /\ returned' = Undefined
  /\ calls' = <<>>
  /\ UNCHANGED <<platform, is_ready, created, tray_icon_, menu_, destroyCalled>>

\* Tray::OnClicked
OnClicked == Callback("OnClicked", Emit(emitted, "click"))

\* Tray::OnDoubleClicked
OnDoubleClicked == Callback("OnDoubleClicked", Emit(emitted, "double-click"))

\* Tray::OnRightClicked
OnRightClicked == Callback("OnRightClicked", Emit(emitted, "right-click"))

\* Tray::OnBalloonShow
OnBalloonShow == Callback("OnBalloonShow", Emit(emitted, "balloon-show"))

\* Tray::OnBalloonClicked
OnBalloonClicked == Callback("OnBalloonClicked", Emit(emitted, "balloon-click"))

\* Tray::OnBalloonClosed
OnBalloonClosed == Callback("OnBalloonClosed", Emit(emitted, "balloon-closed"))

\* Tray::OnDrop
OnDrop == Callback("OnDrop", Emit(emitted, "drop"))

\* Tray::OnDropFiles
OnDropFiles == Callback("OnDropFiles", Emit(emitted, "drop-files"))

\* Tray::OnDropText
OnDropText == Callback("OnDropText", Emit(emitted, "drop-text"))

\* Tray::OnMouseEntered
OnMouseEntered == Callback("OnMouseEntered", Emit(emitted, "mouse-enter"))

\* Tray::OnMouseExited
OnMouseExited == Callback("OnMouseExited", Emit(emitted, "mouse-leave"))

\* Tray::OnMouseMoved
OnMouseMoved == Callback("OnMouseMoved", Emit(emitted, "mouse-move"))

\* Tray::OnMouseUp
OnMouseUp == Callback("OnMouseUp", Emit(emitted, "mouse-up"))

\* Tray::OnMouseDown
OnMouseDown == Callback("OnMouseDown", Emit(emitted, "mouse-down"))

\* Tray::OnDragEntered
OnDragEntered == Callback("OnDragEntered", Emit(emitted, "drag-enter"))

\* Tray::OnDragExited
OnDragExited == Callback("OnDragExited", Emit(emitted, "drag-leave"))

\* Tray::OnDragEnded
OnDragEnded == Callback("OnDragEnded", Emit(emitted, "drag-end"))

Callbacks ==
  \/ OnClicked \/ OnDoubleClicked \/ OnRightClicked \/ OnBalloonShow
  \/ OnBalloonClicked \/ OnBalloonClosed \/ OnDrop \/ OnDropFiles
  \/ OnDropText \/ OnMouseEntered \/ OnMouseExited \/ OnMouseMoved
  \/ OnMouseUp \/ OnMouseDown \/ OnDragEntered \/ OnDragExited
  \/ OnDragEnded

Methods ==
  \/ Destroy \/ IsDestroyed \/ SetImage \/ SetPressedImage \/ SetToolTip
  \/ SetTitle \/ GetTitle \/ SetIgnoreDoubleClickEvents
  \/ GetIgnoreDoubleClickEvents \/ DisplayBalloon \/ RemoveBalloon \/ Focus
  \/ PopUpContextMenu \/ CloseContextMenu \/ SetContextMenu \/ GetBounds

Next == BrowserReady \/ New \/ Methods \/ Callbacks

Spec == Init /\ [][Next]_vars

(***************************************************************************)
(* Properties                                                              *)
(***************************************************************************)

CallbackNames ==
  {"OnClicked", "OnDoubleClicked", "OnRightClicked", "OnBalloonShow",
   "OnBalloonClicked", "OnBalloonClosed", "OnDrop", "OnDropFiles",
   "OnDropText", "OnMouseEntered", "OnMouseExited", "OnMouseMoved",
   "OnMouseUp", "OnMouseDown", "OnDragEntered", "OnDragExited", "OnDragEnded"}

\* The event name each callback is expected to emit.
EventOf(cb) ==
  CASE cb = "OnClicked" -> "click"
    [] cb = "OnDoubleClicked" -> "double-click"
    [] cb = "OnRightClicked" -> "right-click"
    [] cb = "OnBalloonShow" -> "balloon-show"
    [] cb = "OnBalloonClicked" -> "balloon-click"
    [] cb = "OnBalloonClosed" -> "balloon-closed"
    [] cb = "OnDrop" -> "drop"
    [] cb = "OnDropFiles" -> "drop-files"
    [] cb = "OnDropText" -> "drop-text"
    [] cb = "OnMouseEntered" -> "mouse-enter"
    [] cb = "OnMouseExited" -> "mouse-leave"
    [] cb = "OnMouseMoved" -> "mouse-move"
    [] cb = "OnMouseUp" -> "mouse-up"
    [] cb = "OnMouseDown" -> "mouse-down"
    [] cb = "OnDragEntered" -> "drag-enter"
    [] cb = "OnDragExited" -> "drag-leave"
    [] cb = "OnDragEnded" -> "drag-end"

EventsMatchCallbacks ==
  /\ Len(emitted) = Len(delivered)
  /\ \A i \in 1..Len(delivered) : emitted[i] = EventOf(delivered[i])

CallbackStep ==
  delivered' # delivered =>
    /\ tray_icon_ # NULL
    /\ \E cb \in CallbackNames :
         /\ delivered' = Append(delivered, cb)
         /\ emitted' = Append(emitted, EventOf(cb))
         /\ op'.name = cb
    /\ calls' = <<>>
    /\ thrown' = NoError
    /\ UNCHANGED <<created, tray_icon_, menu_, destroyCalled>>

\* C1: every observer callback delivered to a live Tray emits exactly one
\* event, the one the name table gives for it, makes no native call, throws
\* nothing and leaves the destroyed state and the held menu alone; the events
\* emitted so far are, in order, the events of the callbacks delivered so far.
C1_CallbackEmitsItsEvent == []EventsMatchCallbacks /\ [][CallbackStep]_vars

C1_Witness ==
  /\ delivered = <<"OnDragExited", "OnClicked">>
  /\ emitted = <<"drag-leave", "click">>
  /\ menu_ \in Menus
  /\ tray_icon_ # NULL

ForwardingMethods ==
  {"setImage", "setPressedImage", "setToolTip", "setTitle",
   "setIgnoreDoubleClickEvents", "displayBalloon", "removeBalloon", "focus",
   "popUpContextMenu", "closeContextMenu", "setContextMenu", "getBounds"}

\* The native operation a forwarding method corresponds to.
NativeOf(m) ==
  CASE m = "setImage" -> "SetImage"
    [] m = "setPressedImage" -> "SetPressedImage"
    [] m = "setToolTip" -> "SetToolTip"
    [] m = "setTitle" -> "SetTitle"
    [] m = "setIgnoreDoubleClickEvents" -> "SetIgnoreDoubleClickEvents"
    [] m = "displayBalloon" -> "DisplayBalloon"
    [] m = "removeBalloon" -> "RemoveBalloon"
    [] m = "focus" -> "Focus"
    [] m = "popUpContextMenu" -> "PopUpContextMenu"
    [] m = "closeContextMenu" -> "CloseContextMenu"
    [] m = "setContextMenu" -> "SetContextMenu"
    [] m = "getBounds" -> "GetBounds"

\* The last operation was a forwarding method called on a Tray that was not
\* destroyed (no forwarding method changes tray_icon_).
ForwardingCallOnLiveTray ==
  /\ op.name \in ForwardingMethods
  /\ ~destroyCalled

ExactlyOneNativeCall ==
  /\ Len(calls) = 1
  /\ calls[1].fn = NativeOf(op.name)

\* C2 as stated: every forwarding method called on a non-destroyed Tray makes
\* exactly one call of the corresponding native operation.
C2_EveryCallForwarded == ForwardingCallOnLiveTray => ExactlyOneNativeCall

MacOnlyCall ==
  /\ op.name \in {"setTitle", "setIgnoreDoubleClickEvents"}
  /\ platform # "OS_MACOSX"

BalloonWithoutText ==
  /\ op.name = "displayBalloon"
  /\ (op.arg.title = Absent \/ op.arg.content = Absent)

MenuArgInvalid ==
  /\ op.name = "setContextMenu"
  /\ op.arg \notin (Menus \cup {"null"})

\* C2 amended: a forwarding method called on a non-destroyed Tray makes
\* exactly one call of the corresponding native operation, except that
\* setTitle and setIgnoreDoubleClickEvents make no native call off macOS,
\* displayBalloon without title or content throws and makes no call, and
\* setContextMenu with neither a Menu nor null throws a TypeError and makes
\* no call.
C2_ForwardedUnlessRejected ==
  ForwardingCallOnLiveTray =>
    IF MacOnlyCall THEN calls = <<>> /\ thrown = NoError
    ELSE IF BalloonWithoutText THEN calls = <<>> /\ thrown = ErrBalloon
    ELSE IF MenuArgInvalid THEN calls = <<>> /\ thrown = ErrMenu
    ELSE ExactlyOneNativeCall /\ thrown = NoError

C2_Witness ==
  /\ ~destroyCalled
  /\ op.name = "setToolTip"
  /\ calls = <<Call("SetToolTip", "a")>>

GuardedMethods ==
  ForwardingMethods \cup {"getTitle", "getIgnoreDoubleClickEvents"}

DefaultReturn(m) ==
  CASE m = "getTitle" -> ""
    [] m = "getIgnoreDoubleClickEvents" -> "false"
    [] m = "getBounds" -> "Rect()"
    [] OTHER -> Undefined

\* C3: once destroy has been called, every call of a method other than
\* destroy and isDestroyed throws "Tray is destroyed", makes no native call,
\* returns the method's default value and changes nothing of the Tray.
C3_DestroyedMethodsThrow ==
  [][(destroyCalled /\ op'.name \in GuardedMethods) =>
       /\ thrown' = ErrDestroyed
       /\ calls' = <<>>
       /\ returned' = DefaultReturn(op'.name)
       /\ UNCHANGED <<created, tray_icon_, menu_, delivered, emitted>>]_vars

C3_Witness ==
  /\ destroyCalled
  /\ op.name = "getBounds"
  /\ thrown = ErrDestroyed
  /\ returned = "Rect()"

CountCalls(fn) == Cardinality({i \in DOMAIN calls : calls[i].fn = fn})

GuidArgInvalid ==
  platform = "OS_WIN" /\ op.arg.guid = Absent /\ op.arg.argc > 1

\* C4: createTray before the application is ready throws the readiness error
\* (also when the GUID is invalid), returns the empty handle and creates
\* neither a Tray nor a native icon; createTray with valid arguments once the
\* application is ready creates exactly one native icon for the new Tray.
C4_CreateNeedsReadyApp ==
  op.name = "createTray" =>
    /\ ~is_ready =>
         /\ thrown = ErrNotReady
         /\ returned = "Handle<Tray>()"
         /\ calls = <<>>
         /\ ~created
         /\ tray_icon_ = NULL
    /\ (is_ready /\ ~GuidArgInvalid) =>
         /\ thrown = NoError
         /\ returned = "Handle<Tray>"
         /\ CountCalls("Create") = 1
         /\ created
         /\ tray_icon_ # NULL

C4_Witness ==
  /\ op.name = "createTray"
  /\ ~is_ready
  /\ GuidArgInvalid
  /\ thrown = ErrNotReady

\* C5: isDestroyed answers false until destroy is first called and true ever
\* after, a destroyed Tray never becomes live again, destroy and isDestroyed
\* never throw, and destroy on a destroyed Tray changes nothing.
C5_DestroyIsPermanent ==
  /\ []((op.name = "isDestroyed") =>
          (returned = BoolStr(destroyCalled) /\ thrown = NoError))
  /\ []((op.name = "destroy") => (thrown = NoError /\ tray_icon_ = NULL))
  /\ [][/\ destroyCalled => destroyCalled' /\ tray_icon_' = NULL
        /\ (destroyCalled /\ op'.name = "destroy") =>
             UNCHANGED <<created, tray_icon_, menu_, delivered, emitted>>]_vars

C5_Witness ==
  /\ destroyCalled
  /\ op.name = "isDestroyed"
  /\ returned = "true"
  /\ Len(delivered) > 0
====
